---- MODULE Spec2Model ----
(***************************************************************************)
(* Generic OAuth2/OIDC plugin (genericOAuth): the endpoints                *)
(* signInWithOAuth2, oAuth2Callback and oAuth2LinkAccount as one state     *)
(* machine.  Every await of oAuth2Callback is a step of its own, so that   *)
(* concurrent callback requests interleave at the points where the         *)
(* JavaScript event loop can switch between them.  The provider objects    *)
(* that init registers as socialProviders, with the finalUserInfoUrl each  *)
(* of them keeps between calls, are the specification SpecProviders.       *)
(*                                                                         *)
(* Representation of JavaScript values:                                    *)
(*   - a string | undefined is a TLA+ string, Undefined standing for the   *)
(*     value undefined; Truthy is JavaScript truthiness on it;             *)
(*   - e-mail addresses and collaborator error messages are sequences of   *)
(*     one-character strings, because the code transforms them character   *)
(*     by character (toLowerCase, split(" ").join("_")); the empty         *)
(*     sequence is the falsy e-mail (undefined or "").                     *)
(***************************************************************************)
EXTENDS Integers, Sequences, FiniteSets, TLC

\* ------------------------------------------------------------------ bounds
MaxFlows == 1        \* FlowStates created per behaviour

\* ------------------------------------------------------- JavaScript values
Undefined == "undefined"

Truthy(s) == s # Undefined /\ s # ""

\* a || b
Or(a, b) == IF Truthy(a) THEN a ELSE b

\* String.prototype.toLowerCase, on the letters a, A and b
LowerChar(c) == IF c = "A" THEN "a" ELSE c

toLowerCase(s) == [i \in 1..Len(s) |-> LowerChar(s[i])]

\* String.prototype.split(" ").join("_"): every space becomes an underscore
SplitJoinFirst(s) ==
  LET spaces == {i \in 1..Len(s) : s[i] = " "}
  IN  [i \in 1..Len(s) |->
        IF i \in spaces /\ \A j \in spaces : i <= j THEN "_" ELSE s[i]]

SplitJoin(s) == [i \in 1..Len(s) |-> IF s[i] = " " THEN "_" ELSE s[i]]

\* ------------------------------------------------------------ deployment
\* `${ctx.context.baseURL}/error`
BaseErrorURL == "https://app/error"

\* the query parameters an authorization URL may carry
ParamKeys ==
  {"response_type", "client_id", "state", "scope", "redirect_uri",
   "code_challenge", "prompt", "access_type", "audience"}

\* the search parameters of a URL without a query
NoParams == [k \in ParamKeys |-> Undefined]

\* options.config: the registered GenericOAuthConfig records
Providers ==
  { [providerId |-> "acme", discoveryUrl |-> Undefined,
     authorizationUrl |-> "acme/authorize", tokenUrl |-> "acme/token",
     userInfoUrl |-> "acme/userinfo", pkce |-> FALSE,
     getUserInfo |-> FALSE, mapProfileToUser |-> FALSE,
     disableImplicitSignUp |-> FALSE, disableSignUp |-> FALSE,
     clientId |-> "acme-id", clientSecret |-> "acme-secret",
     scopes |-> "profile", responseType |-> Undefined,
     prompt |-> "login", accessType |-> Undefined,
     authorizationUrlParams |->
       [NoParams EXCEPT !["prompt"] = "consent", !["audience"] = "api"],
     authentication |-> "basic"],
    [providerId |-> "oidc", discoveryUrl |-> "oidc/.well-known",
     authorizationUrl |-> "oidc/authorize", tokenUrl |-> "oidc/token",
     userInfoUrl |-> "oidc/userinfo", pkce |-> TRUE,
     getUserInfo |-> FALSE, mapProfileToUser |-> TRUE,
     disableImplicitSignUp |-> TRUE, disableSignUp |-> FALSE,
     clientId |-> "oidc-id", clientSecret |-> "oidc-secret",
     scopes |-> "openid", responseType |-> "code",
     prompt |-> Undefined, accessType |-> "offline",
     authorizationUrlParams |-> NoParams,
     authentication |-> "post"],
    [providerId |-> "disc", discoveryUrl |-> "disc/.well-known",
     authorizationUrl |-> Undefined, tokenUrl |-> Undefined,
     userInfoUrl |-> Undefined, pkce |-> FALSE,
     getUserInfo |-> TRUE, mapProfileToUser |-> FALSE,
     disableImplicitSignUp |-> FALSE, disableSignUp |-> TRUE,
     clientId |-> "disc-id", clientSecret |-> "disc-secret",
     scopes |-> Undefined, responseType |-> "code id_token",
     prompt |-> Undefined, accessType |-> Undefined,
     authorizationUrlParams |->
       [NoParams EXCEPT !["access_type"] = "online", !["audience"] = "api"],
     authentication |-> Undefined],
    [providerId |-> "half", discoveryUrl |-> Undefined,
     authorizationUrl |-> "half/authorize", tokenUrl |-> Undefined,
     userInfoUrl |-> Undefined, pkce |-> FALSE,
     getUserInfo |-> FALSE, mapProfileToUser |-> TRUE,
     disableImplicitSignUp |-> FALSE, disableSignUp |-> FALSE,
     clientId |-> "half-id", clientSecret |-> "half-secret",
     scopes |-> Undefined, responseType |-> Undefined,
     prompt |-> Undefined, accessType |-> Undefined,
     authorizationUrlParams |-> NoParams,
     authentication |-> Undefined] }

ProviderIds == {p.providerId : p \in Providers}

\* options.config.find((c) => c.providerId === id), for a registered id
FindProvider(id) == CHOOSE p \in Providers : p.providerId = id

\* the users that may hold an authenticated session (sessionMiddleware)
Users ==
  { [id |-> "u1", email |-> <<"a", "b">>],
    [id |-> "u2", email |-> <<"A", "b">>] }

\* ----------------------------------------------------------------- state
VARIABLES
  options,    \* ctx.context.options: onAPIError.errorURL, accountLinking
  flows,      \* the FlowState store, indexed by the state value
  accounts,   \* the account table behind internalAdapter
  sessions,   \* the sessions the account collaborator has created, each
              \* named by the state value of the flow it was created for
  initResp,   \* the last response of signInWithOAuth2 / oAuth2LinkAccount
  run,        \* the callback requests in flight, one record per request slot
  genericProviders,  \* per provider object of init: its finalUserInfoUrl
  provResp    \* the last result of a method of a provider object

vars ==
  <<options, flows, accounts, sessions, initResp, run, genericProviders,
    provResp>>

\* the state of the provider objects init hands to the framework
provs == <<genericProviders, provResp>>

Runs == {"r1", "r2"}

\* ------------------------------------------------------------- FlowState
NoLink == [userId |-> Undefined, email |-> <<>>]

\* generateState(c, link): the FlowState stored for a new flow.  Its state
\* value is its index in the store; codeVerifier is fresh per flow.
generateState(store, body, link) ==
  Append(store,
    [callbackURL |-> body.callbackURL,
     codeVerifier |-> Len(store) + 1,
     errorURL |-> body.errorCallbackURL,
     newUserURL |-> body.newUserCallbackURL,
     requestSignUp |-> body.requestSignUp,
     link |-> link,
     status |-> "live"])

NoFlowState ==
  [callbackURL |-> Undefined, codeVerifier |-> 0, errorURL |-> Undefined,
   newUserURL |-> Undefined, requestSignUp |-> FALSE, link |-> NoLink,
   status |-> "none"]

\* parseState(ctx): take(state) on the FlowState store.  The read and the
\* removal are one atomic step; a state value that is missing (0), was never
\* issued, has expired or was consumed already fails.
parseState(store, state) ==
  IF state \in 1..Len(store) /\ store[state].status = "live"
  THEN [ok |-> TRUE, parsedState |-> store[state],
        store |-> [store EXCEPT ![state] =
                     [NoFlowState EXCEPT !.status = "consumed"]]]
  ELSE [ok |-> FALSE, parsedState |-> NoFlowState, store |-> store]

\* -------------------------------------------------------------- outcomes
\* What a request ends with: a redirect (ctx.redirect), an APIError, or an
\* exception no handler of the endpoint catches.
NoOutcome ==
  [kind |-> "none", url |-> Undefined, error |-> Undefined,
   errorChars |-> <<>>, desc |-> Undefined]

\* throw ctx.redirect(url) with no error parameter
RedirectTo(url) == [NoOutcome EXCEPT !.kind = "redirect", !.url = url]

\* throw ctx.redirect(`${url}?error=${error}`)
RedirectWithError(url, error) ==
  [NoOutcome EXCEPT !.kind = "redirect", !.url = url, !.error = error]

\* throw new APIError(status, {message})
APIError(status, message) ==
  [NoOutcome EXCEPT !.kind = "apierror", !.error = status, !.desc = message]

Uncaught == [NoOutcome EXCEPT !.kind = "exception"]

\* ------------------------------------------------- tokens and identities
NoIdToken == [kind |-> "none", sub |-> Undefined, email |-> <<>>]

NoTokens == [accessToken |-> Undefined, idToken |-> NoIdToken]

Subs == {Undefined, "sub1"}

\* the e-mail claims a provider may report; <<>> is a missing or empty one
IdentityEmails == {<<>>, <<"a", "b">>, <<"A", "b">>, <<"b", "b">>}

\* the ID tokens a provider may return: none, one decodeJwt rejects, or a
\* JWT whose payload has sub, email or both
IdTokens ==
  {NoIdToken, [NoIdToken EXCEPT !.kind = "malformed"]}
    \cup { t \in [kind : {"jwt"}, sub : Subs, email : {<<>>, <<"a", "b">>}] :
             Truthy(t.sub) \/ t.email # <<>> }

NullUser == [null |-> TRUE, id |-> Undefined, email |-> <<>>]

\* the objects an identity source may yield; every field may be missing
UserInfos ==
  {u \in [null : {FALSE}, id : Subs, email : IdentityEmails] :
     u.id = Undefined => u.email \in {<<>>, <<"a", "b">>}}

\* what the fetch of the userinfo endpoint may answer: no data (the call
\* failed), or a document in which sub, email or both may be missing
NoUserInfoResponse == [data |-> FALSE, sub |-> Undefined, email |-> <<>>]

UserInfoResponses ==
  {NoUserInfoResponse}
    \cup {u \in [data : {TRUE}, sub : Subs, email : IdentityEmails] :
            u.sub = Undefined => u.email \in {<<>>, <<"a", "b">>}}

\* lines 138-156: the ID token is a JWT whose payload has sub and email
IdTokenSuffices(tokens) ==
  /\ tokens.idToken.kind = "jwt"
  /\ Truthy(tokens.idToken.sub)
  /\ tokens.idToken.email # <<>>

\* getUserInfo(tokens, finalUserInfoUrl): the default identity extractor.
\* response is what the userinfo endpoint answers if it is asked.
getUserInfo_FetchFirst(tokens, finalUserInfoUrl, response) ==
  LET idt == tokens.idToken
  IN  IF idt.kind = "malformed"
      THEN [threw |-> TRUE, fetched |-> FALSE, userInfo |-> NullUser]
      ELSE IF Truthy(finalUserInfoUrl)
      THEN [threw |-> FALSE, fetched |-> TRUE,
            userInfo |->
              [null |-> FALSE,
               id |-> IF response.data THEN response.sub ELSE Undefined,
               email |-> IF response.data THEN response.email ELSE <<>>]]
      ELSE IF IdTokenSuffices(tokens)
      THEN [threw |-> FALSE, fetched |-> FALSE,
            userInfo |-> [null |-> FALSE, id |-> idt.sub, email |-> idt.email]]
      ELSE [threw |-> FALSE, fetched |-> FALSE, userInfo |-> NullUser]

getUserInfo(tokens, finalUserInfoUrl, response) ==
  LET idt == tokens.idToken
  IN  IF idt.kind = "malformed"
      THEN [threw |-> TRUE, fetched |-> FALSE, userInfo |-> NullUser]
      ELSE IF IdTokenSuffices(tokens)
      THEN [threw |-> FALSE, fetched |-> FALSE,
            userInfo |-> [null |-> FALSE, id |-> idt.sub, email |-> idt.email]]
      ELSE IF ~Truthy(finalUserInfoUrl)
      THEN [threw |-> FALSE, fetched |-> FALSE, userInfo |-> NullUser]
      ELSE [threw |-> FALSE, fetched |-> TRUE,
            userInfo |->
              [null |-> FALSE,
               id |-> IF response.data THEN response.sub ELSE Undefined,
               email |-> IF response.data THEN response.email ELSE <<>>]]

\* what mapProfileToUser may return: nothing to override, or an id and an
\* e-mail of its own
NoMap == [id |-> Undefined, email |-> <<>>]

MapResults == {NoMap, [id |-> "mapped", email |-> <<"b", "a">>]}

\* {...userInfo, ...mapUser}
Spread(userInfo, mapUser) ==
  [id |-> IF mapUser.id # Undefined THEN mapUser.id ELSE userInfo.id,
   email |-> IF mapUser.email # <<>> THEN mapUser.email ELSE userInfo.email]

\* ------------------------------------------------------- callback requests
NoRequest ==
  [providerId |-> Undefined, code |-> Undefined, error |-> Undefined,
   error_description |-> Undefined, state |-> 0]

\* query and path parameters of GET /oauth2/callback/:providerId; state 0 is
\* a request without state.  A provider sends error_description only
\* together with an error code.
Requests ==
  {q \in [providerId : ProviderIds \cup {"nope"},
          code : {Undefined, "", "c1"},
          error : {Undefined, "", "access_denied"},
          error_description : {Undefined, "denied"},
          state : 0..MaxFlows] :
     q.error_description # Undefined => Truthy(q.error)}

\* requests to one provider that carry a code, a state value and no error
CodeRequests ==
  {q \in Requests :
     /\ q.code = "c1" /\ q.error = Undefined /\ q.state # 0
     /\ q.providerId = "oidc"}

NoAccount ==
  [userId |-> Undefined, providerId |-> Undefined, accountId |-> Undefined]

NoHandle ==
  [id |-> Undefined, email |-> <<>>, accountId |-> Undefined,
   disableSignUp |-> FALSE]

NoResult == [error |-> <<>>, isRegister |-> FALSE]

\* no discovery document: the fetch has no data, or there was no fetch
NoDiscovery ==
  [data |-> FALSE, authorization_endpoint |-> Undefined,
   token_endpoint |-> Undefined, userinfo_endpoint |-> Undefined]

\* the arguments of validateAuthorizationCode before it is called;
\* codeVerifier 0 is undefined
NoExchange ==
  [code |-> Undefined, codeVerifier |-> 0, redirectURI |-> Undefined,
   tokenEndpoint |-> Undefined]

\* a request slot before a request arrives; the fields after req are the
\* handler's local variables, calls is the list of the outbound calls and
\* collaborator calls the request has made, in order
IdleRun ==
  [pc |-> "idle", req |-> NoRequest, parsed |-> FALSE,
   parsedState |-> NoFlowState, discovery |-> NoDiscovery,
   userinfo |-> NoUserInfoResponse,
   finalTokenUrl |-> Undefined, finalUserInfoUrl |-> Undefined,
   tokens |-> NoTokens, resolved |-> FALSE, userInfo |-> NullUser,
   mapUser |-> NoMap, account |-> NoAccount, handle |-> NoHandle,
   result |-> NoResult, cookie |-> FALSE, calls |-> <<>>,
   outcome |-> NoOutcome, exchange |-> NoExchange]

Done(rec, outcome) == [rec EXCEPT !.pc = "done", !.outcome = outcome]

Called(rec, op) == [rec EXCEPT !.calls = Append(@, op)]

\* lines 551-553: errorURL || callbackURL || `${ctx.context.baseURL}/error`
ErrorTarget_CallbackFirst(rec) ==
  Or(rec.parsedState.callbackURL, Or(rec.parsedState.errorURL, BaseErrorURL))

ErrorTarget(rec) ==
  Or(rec.parsedState.errorURL, Or(rec.parsedState.callbackURL, BaseErrorURL))

\* redirectOnError(error), lines 549-555, with a literal error code
redirectOnError(rec, error) ==
  Done(rec, RedirectWithError(ErrorTarget(rec), error))

\* redirectOnError(error), lines 549-555, with a computed error code
redirectOnErrorChars(rec, chars) ==
  Done(rec, [RedirectTo(ErrorTarget(rec)) EXCEPT !.errorChars = chars])

\* what a fetch of a discovery URL may answer: no data, a full document, or
\* a document that names no userinfo endpoint
DiscoveryResponses ==
  { NoDiscovery,
    [data |-> TRUE, authorization_endpoint |-> "discovered/authorize",
     token_endpoint |-> "discovered/token",
     userinfo_endpoint |-> "discovered/userinfo"],
    [data |-> TRUE, authorization_endpoint |-> "discovered/authorize",
     token_endpoint |-> "discovered/token",
     userinfo_endpoint |-> Undefined] }

\* what validateAuthorizationCode may do: throw, or return a token bundle
TokenResponses ==
  [threw : {TRUE}, tokens : {NoTokens}]
    \cup [threw : {FALSE}, tokens : [accessToken : {"at1"}, idToken : IdTokens]]

\* what handleOAuthUserInfo may return: {error} with a message of one or
\* of three words, or {data, isRegister}
ErrorMessages ==
  { <<"x">>, <<"x", " ", "x", " ", "x">> }

HandleResults ==
  [error : ErrorMessages, isRegister : {FALSE}]
    \cup [error : {<<>>}, isRegister : BOOLEAN]

\* ------------------------------------------- oAuth2Callback, step by step
\* lines 517-519
defaultErrorURL == Or(options.errorURL, BaseErrorURL)

\* line 520
ErrorOrNoCode_ErrorOnly(q) == Truthy(q.error)

ErrorOrNoCode(q) == Truthy(q.error) \/ ~Truthy(q.code)

\* lines 516-537: from the request to the call of parseState
OnRequest_NoParseState(rec, q) ==
  LET got == [rec EXCEPT !.req = q]
  IN  IF ErrorOrNoCode(q)
      THEN Done(got,
             [RedirectWithError(defaultErrorURL, Or(q.error, "oAuth_code_missing"))
                EXCEPT !.desc = q.error_description])
      ELSE IF q.providerId \notin ProviderIds
      THEN Done(got, APIError("BAD_REQUEST", "No config found for provider"))
      ELSE [got EXCEPT !.pc = "validateAuthorizationCode",
                       !.finalTokenUrl = FindProvider(q.providerId).tokenUrl]

OnRequest(rec, q) ==
  LET got == [rec EXCEPT !.req = q]
  IN  IF ErrorOrNoCode(q)
      THEN Done(got,
             [RedirectWithError(defaultErrorURL, Or(q.error, "oAuth_code_missing"))
                EXCEPT !.desc = q.error_description])
      ELSE IF q.providerId \notin ProviderIds
      THEN Done(got, APIError("BAD_REQUEST", "No config found for provider"))
      ELSE [got EXCEPT !.pc = "parseState"]

\* lines 588-596: the catch around the code exchange
CatchExchange_Rethrow(rec) == Done(rec, Uncaught)

CatchExchange(rec) == redirectOnError(rec, "oauth_code_verification_failed")

\* lines 577-587: the arguments of validateAuthorizationCode
ExchangeArgs_AlwaysVerifier(rec) ==
  [code |-> rec.req.code,
   codeVerifier |-> rec.parsedState.codeVerifier,
   redirectURI |-> "/oauth2/callback/" \o FindProvider(rec.req.providerId).providerId,
   tokenEndpoint |-> rec.finalTokenUrl]

ExchangeArgs(rec) ==
  LET provider == FindProvider(rec.req.providerId)
  IN  [code |-> rec.req.code,
       codeVerifier |-> IF provider.pkce THEN rec.parsedState.codeVerifier
                        ELSE 0,
       redirectURI |-> "/oauth2/callback/" \o provider.providerId,
       tokenEndpoint |-> rec.finalTokenUrl]

\* lines 571-587: the try block up to the call of validateAuthorizationCode
TryExchange(rec) ==
  IF ~Truthy(rec.finalTokenUrl)
  THEN CatchExchange(rec)
  ELSE [rec EXCEPT !.pc = "validateAuthorizationCode",
                   !.exchange = ExchangeArgs(rec)]

\* lines 557-570: endpoints from the static configuration, then the
\* discovery fetch if a discovery URL is configured
ResolveEndpoints(rec) ==
  LET provider == FindProvider(rec.req.providerId)
      static == [rec EXCEPT !.finalTokenUrl = provider.tokenUrl,
                            !.finalUserInfoUrl = provider.userInfoUrl]
  IN  IF Truthy(provider.discoveryUrl)
      THEN [static EXCEPT !.pc = "discovery"]
      ELSE TryExchange(static)

\* lines 537-547: parseState throws its redirect to the generic error page
\* when take fails, and the handler lets it pass
OnParseState_Default(rec, res) ==
  ResolveEndpoints(
    [Called(rec, "parseState") EXCEPT !.parsed = res.ok,
                                      !.parsedState = res.parsedState])

OnParseState(rec, res) ==
  IF ~res.ok
  THEN Done([Called(rec, "parseState") EXCEPT !.parsed = FALSE],
            RedirectWithError(BaseErrorURL, "please_restart_the_process"))
  ELSE ResolveEndpoints(
         [Called(rec, "parseState") EXCEPT !.parsed = TRUE,
                                           !.parsedState = res.parsedState])

\* lines 566-570, then the try block
OnDiscovery_StaticFirst(rec, discovery) ==
  LET called == [Called(rec, "discovery") EXCEPT !.discovery = discovery]
  IN  IF discovery.data
      THEN TryExchange(
             [called EXCEPT
                !.finalTokenUrl = Or(@, discovery.token_endpoint),
                !.finalUserInfoUrl = Or(@, discovery.userinfo_endpoint)])
      ELSE TryExchange(called)

OnDiscovery(rec, discovery) ==
  LET called == [Called(rec, "discovery") EXCEPT !.discovery = discovery]
  IN  IF discovery.data
      THEN TryExchange(
             [called EXCEPT !.finalTokenUrl = discovery.token_endpoint,
                            !.finalUserInfoUrl = discovery.userinfo_endpoint])
      ELSE TryExchange(called)

\* lines 577-607: the exchange's result, up to the call of getUserInfo
OnValidateAuthorizationCode_Swallow(rec, res) ==
  [Called(rec, "validateAuthorizationCode") EXCEPT
     !.tokens = res.tokens, !.pc = "getUserInfo"]

OnValidateAuthorizationCode(rec, res) ==
  LET called == Called(rec, "validateAuthorizationCode")
  IN  IF res.threw
      THEN CatchExchange(called)
      ELSE [called EXCEPT !.tokens = res.tokens, !.pc = "getUserInfo"]

\* lines 619-623: the link branch's e-mail check
LinkEmailRejected_OnlyFalse(link, userInfo) ==
  /\ options.allowDifferentEmails = "false"
  /\ link.email # toLowerCase(userInfo.email)

LinkEmailRejected(link, userInfo) ==
  /\ options.allowDifferentEmails # "true"
  /\ link.email # toLowerCase(userInfo.email)

\* lines 618-663: the branch on link, up to the call of createAccount or of
\* handleOAuthUserInfo
Branch(rec) ==
  LET link == rec.parsedState.link
  IN  IF link # NoLink
      THEN IF LinkEmailRejected(link, rec.userInfo)
           THEN redirectOnError(rec, "email_doesn't_match")
           ELSE [rec EXCEPT !.pc = "createAccount"]
      ELSE [rec EXCEPT !.pc = "handleOAuthUserInfo"]

\* line 609: !userInfo?.email
EmailMissing_NullOnly(userInfo) == userInfo.null

EmailMissing(userInfo) == userInfo.null \/ userInfo.email = <<>>

\* lines 603-616: the identity, the e-mail check, the call of
\* mapProfileToUser when one is configured
OnUserInfo(rec, userInfo) ==
  LET got == [rec EXCEPT !.resolved = TRUE, !.userInfo = userInfo]
  IN  IF EmailMissing(userInfo)
      THEN redirectOnError(got, "email_is_missing")
      ELSE IF FindProvider(rec.req.providerId).mapProfileToUser
      THEN [got EXCEPT !.pc = "mapProfileToUser"]
      ELSE Branch(got)

\* lines 603-607 with the default extractor: decodeJwt may throw
OnGetUserInfo(rec, response) ==
  LET g == getUserInfo(rec.tokens, rec.finalUserInfoUrl, response)
      called == IF g.fetched
                THEN [Called(rec, "userinfo") EXCEPT !.userinfo = response]
                ELSE rec
  IN  IF g.threw THEN Done(called, Uncaught) ELSE OnUserInfo(called, g.userInfo)

\* lines 614-616
OnMapProfileToUser(rec, mapUser) ==
  Branch([Called(rec, "mapProfileToUser") EXCEPT !.mapUser = mapUser])

\* lines 626-635: the arguments of createAccount
AccountArgs_IdentityUser(rec) ==
  [userId |-> rec.userInfo.id,
   providerId |-> FindProvider(rec.req.providerId).providerId,
   accountId |-> rec.userInfo.id]

AccountArgs(rec) ==
  [userId |-> rec.parsedState.link.userId,
   providerId |-> FindProvider(rec.req.providerId).providerId,
   accountId |-> rec.userInfo.id]

\* lines 636-646: after createAccount
OnCreateAccount_FallThrough(rec, created) ==
  LET called == [Called(rec, "createAccount") EXCEPT !.account = AccountArgs(rec)]
  IN  IF ~created
      THEN redirectOnError(called, "unable_to_link_account")
      ELSE [called EXCEPT !.pc = "handleOAuthUserInfo"]

OnCreateAccount(rec, created) ==
  LET called == [Called(rec, "createAccount") EXCEPT !.account = AccountArgs(rec)]
  IN  IF ~created
      THEN redirectOnError(called, "unable_to_link_account")
      ELSE Done(called, RedirectTo(rec.parsedState.callbackURL))

\* lines 649-663: the arguments of handleOAuthUserInfo
HandleArgs_ImplicitAlways(rec) ==
  LET provider == FindProvider(rec.req.providerId)
      merged == Spread(rec.userInfo, rec.mapUser)
  IN  [id |-> merged.id, email |-> merged.email,
       accountId |-> rec.userInfo.id,
       disableSignUp |->
         provider.disableImplicitSignUp \/ provider.disableSignUp]

HandleArgs(rec) ==
  LET provider == FindProvider(rec.req.providerId)
      merged == Spread(rec.userInfo, rec.mapUser)
  IN  [id |-> merged.id, email |-> merged.email,
       accountId |-> rec.userInfo.id,
       disableSignUp |->
         \/ provider.disableImplicitSignUp /\ ~rec.parsedState.requestSignUp
         \/ provider.disableSignUp]

\* what handleOAuthUserInfo may return for its arguments: told that sign-up
\* is disabled, it registers no new user
HandleResultsFor(args) ==
  {result \in HandleResults : result.isRegister => ~args.disableSignUp}

\* lines 665-672: after handleOAuthUserInfo, up to the call of
\* setSessionCookie
OnHandleOAuthUserInfo(rec, result) ==
  LET called == [Called(rec, "handleOAuthUserInfo") EXCEPT !.handle = HandleArgs(rec)]
      got == [called EXCEPT !.result = result]
  IN  IF result.error # <<>>
      THEN redirectOnErrorChars(got, SplitJoin(result.error))
      ELSE [got EXCEPT !.pc = "setSessionCookie"]

\* lines 675-677: the target of the final redirect
SignInTarget_NewUserFirst(rec) ==
  Or(rec.parsedState.newUserURL, rec.parsedState.callbackURL)

SignInTarget(rec) ==
  IF rec.result.isRegister
  THEN Or(rec.parsedState.newUserURL, rec.parsedState.callbackURL)
  ELSE rec.parsedState.callbackURL

\* lines 669-684: after setSessionCookie
OnSetSessionCookie(rec) ==
  Done([Called(rec, "setSessionCookie") EXCEPT !.cookie = TRUE],
       RedirectTo(SignInTarget(rec)))

\* ------------------------------------------------------------ initiation
\* The response of an initiation endpoint, with the request it answers: op,
\* providerId and userId name the request, served is the document the
\* provider's discovery URL answers with while the request runs, fetched
\* says whether the request has fetched it.
NoResponse ==
  [op |-> "none", providerId |-> Undefined, userId |-> Undefined,
   served |-> NoDiscovery, fetched |-> FALSE,
   status |-> "none", message |-> Undefined, url |-> Undefined,
   params |-> NoParams, state |-> 0, codeVerifier |-> 0, redirect |-> FALSE]

\* throw new APIError(status, {message}) from an initiation endpoint
Rejected(request, status, message) ==
  [request EXCEPT !.status = status, !.message = message]

\* ctx.json({url, redirect}) of an initiation endpoint, for the flow that
\* generateState has just stored
Initiated(request, store, url, params, pkce, redirect) ==
  [request EXCEPT !.status = "ok", !.url = url, !.params = params,
                  !.state = Len(store),
                  !.codeVerifier = IF pkce THEN store[Len(store)].codeVerifier
                                   ELSE 0,
                  !.redirect = redirect]

\* bodies of POST /sign-in/oauth2
SignInBodies ==
  { [providerId |-> p, callbackURL |-> b[1], errorCallbackURL |-> b[2],
     newUserCallbackURL |-> b[3], requestSignUp |-> b[4],
     disableRedirect |-> b[5]] :
      p \in ProviderIds \cup {"nope"},
      b \in { <<"/cb", "/err", "/new", TRUE, FALSE>>,
              <<"/cb", Undefined, "", FALSE, TRUE>>,
              <<Undefined, Undefined, Undefined, FALSE, FALSE>> } }

\* bodies of POST /oauth2/link
LinkBodies == [providerId : ProviderIds \cup {"nope"}, callbackURL : {"/linked"}]

\* the document a provider's discovery URL serves, none without such a URL
Served(config, discovery) ==
  IF Truthy(config.discoveryUrl) THEN discovery ELSE NoDiscovery

\* url.searchParams.set(name, value) for every entry of an object of
\* parameters: a value that is set replaces the one the URL had
SetParams(params, entries) ==
  [k \in ParamKeys |->
     IF entries[k] # Undefined THEN entries[k] ELSE params[k]]

\* createAuthorizationURL: the parameters of the URL it returns for an
\* authorization endpoint that carries the parameters given
createAuthorizationURL(params, config, state, codeVerifier) ==
  SetParams(params,
    [NoParams EXCEPT
       !["response_type"] = "code",
       !["client_id"] = config.clientId,
       !["state"] = ToString(state),
       !["scope"] = Or(config.scopes, ""),
       !["redirect_uri"] = "/oauth2/callback/" \o config.providerId,
       !["code_challenge"] = IF codeVerifier = 0 THEN Undefined
                             ELSE "S256-" \o ToString(codeVerifier)])

\* lines 449-459: the parameters sign-in sets on the URL it was returned
SignInParams(params, config) ==
  [k \in ParamKeys |->
     IF k = "response_type" /\ Truthy(config.responseType)
        /\ config.responseType # "code"
     THEN config.responseType
     ELSE IF k = "prompt" /\ Truthy(config.prompt) THEN config.prompt
     ELSE IF k = "access_type" /\ Truthy(config.accessType)
     THEN config.accessType
     ELSE params[k]]

\* lines 375-465
signInWithOAuth2(body, discovery) ==
  LET request == [NoResponse EXCEPT !.op = "signInWithOAuth2",
                                    !.providerId = body.providerId]
  IN
  /\ UNCHANGED <<provs, options, accounts, sessions, run>>
  /\ IF body.providerId \notin ProviderIds
     THEN /\ initResp' =
               Rejected(request, "BAD_REQUEST", "No config found for provider")
          /\ UNCHANGED flows
     ELSE LET config == FindProvider(body.providerId)
              fetched == Truthy(config.discoveryUrl)
              found == fetched /\ discovery.data
              finalAuthUrl == IF found THEN discovery.authorization_endpoint
                              ELSE config.authorizationUrl
              finalTokenUrl == IF found THEN discovery.token_endpoint
                               ELSE config.tokenUrl
              asked == [request EXCEPT !.served = Served(config, discovery),
                                       !.fetched = fetched]
              withAdditionalParams ==
                SetParams(NoParams, config.authorizationUrlParams)
              authUrl(store) ==
                SignInParams(
                  createAuthorizationURL(withAdditionalParams, config,
                    Len(store),
                    IF config.pkce THEN store[Len(store)].codeVerifier ELSE 0),
                  config)
          IN  IF ~Truthy(finalAuthUrl) \/ ~Truthy(finalTokenUrl)
              THEN /\ initResp' =
                        Rejected(asked, "BAD_REQUEST", "Invalid OAuth configuration")
                   /\ UNCHANGED flows
              ELSE /\ Len(flows) < MaxFlows
                   /\ flows' = generateState(flows, body, NoLink)
                   /\ initResp' = Initiated(asked, flows', finalAuthUrl,
                                            authUrl(flows'), config.pkce,
                                            ~body.disableRedirect)

\* lines 699-705: the session's user has an account of the provider already
AlreadyLinked_ByAccountId(user, body) ==
  \E a \in accounts : a.userId = user.id /\ a.accountId = body.providerId

AlreadyLinked(user, body) ==
  \E a \in accounts : a.userId = user.id /\ a.providerId = body.providerId

\* lines 757-760: the link target handed to generateState
LinkTarget(user) == [userId |-> user.id, email |-> user.email]

\* lines 697-781; user is c.context.session.user
oAuth2LinkAccount(user, body, discovery) ==
  LET request == [NoResponse EXCEPT !.op = "oAuth2LinkAccount",
                                    !.providerId = body.providerId,
                                    !.userId = user.id]
  IN
  /\ UNCHANGED <<provs, options, accounts, sessions, run>>
  /\ IF AlreadyLinked(user, body)
     THEN /\ initResp' =
               Rejected(request, "BAD_REQUEST", "Social account already linked")
          /\ UNCHANGED flows
     ELSE IF body.providerId \notin ProviderIds
     THEN /\ initResp' = Rejected(request, "NOT_FOUND", "Provider not found")
          /\ UNCHANGED flows
     ELSE LET provider == FindProvider(body.providerId)
              fetched == ~Truthy(provider.authorizationUrl)
                           /\ Truthy(provider.discoveryUrl)
              finalAuthUrl ==
                IF Truthy(provider.authorizationUrl) THEN provider.authorizationUrl
                ELSE IF fetched /\ discovery.data
                THEN discovery.authorization_endpoint
                ELSE Undefined
              asked == [request EXCEPT !.served = Served(provider, discovery),
                                       !.fetched = fetched]
          IN  IF ~Truthy(finalAuthUrl)
              THEN /\ initResp' =
                        Rejected(asked, "BAD_REQUEST", "Invalid OAuth configuration")
                   /\ UNCHANGED flows
              ELSE /\ Len(flows) < MaxFlows
                   /\ flows' = generateState(flows,
                        [callbackURL |-> body.callbackURL,
                         errorCallbackURL |-> Undefined,
                         newUserCallbackURL |-> Undefined,
                         requestSignUp |-> FALSE],
                        LinkTarget(user))
                   /\ initResp' =
                        Initiated(asked, flows', finalAuthUrl,
                          createAuthorizationURL(NoParams, provider,
                            Len(flows'),
                            IF provider.pkce
                            THEN flows'[Len(flows')].codeVerifier ELSE 0),
                          provider.pkce, TRUE)

\* the validity window of a FlowState ends
Expire(state) ==
  /\ state \in 1..Len(flows)
  /\ flows[state].status = "live"
  /\ flows' = [flows EXCEPT ![state] = [NoFlowState EXCEPT !.status = "expired"]]
  /\ UNCHANGED <<provs, options, accounts, sessions, initResp, run>>

\* ------------------------------------------------- refreshAccessToken
\* the greatest clock reading, in milliseconds, and the greatest expires_in,
\* in seconds, of a token response
MaxNow == 1

MaxExpiresIn == 2

\* the parameters a refresh request body may carry
BodyKeys ==
  {"grant_type", "refresh_token", "client_id", "client_secret", "audience"}

\* new URLSearchParams()
NoBody == [k \in BodyKeys |-> Undefined]

\* btoa(`${clientId}:${clientSecret}`)
btoa(clientId, clientSecret) ==
  "base64(" \o clientId \o ":" \o clientSecret \o ")"

\* no request has gone to the token endpoint
NoTokenRequest ==
  [tokenEndpoint |-> Undefined, method |-> Undefined,
   contentType |-> Undefined, authorization |-> Undefined, body |-> NoBody]

\* the JSON a token endpoint answers with; hasExpiresIn says whether it has
\* the field expires_in, error is the error code of an error payload
NoTokenData ==
  [access_token |-> Undefined, refresh_token |-> Undefined,
   hasExpiresIn |-> FALSE, expires_in |-> 0, error |-> Undefined]

\* what betterFetch resolves to: {data: null, error} when the call fails
\* or the status is not 2xx, {data, error: null} otherwise
RefreshResponses ==
  {[error |-> TRUE, data |-> NoTokenData]}
  \cup {[error |-> FALSE,
         data |-> [NoTokenData EXCEPT !.error = "invalid_grant"]]}
  \cup {[error |-> FALSE,
         data |-> [NoTokenData EXCEPT !.access_token = "at2",
                                      !.refresh_token = "rt2"]]}
  \cup {[error |-> FALSE,
         data |-> [NoTokenData EXCEPT !.access_token = "at2",
                                      !.hasExpiresIn = TRUE,
                                      !.expires_in = n]] :
          n \in 0..MaxExpiresIn}

\* OAuth2Tokens as refreshAccessToken fills it; hasExpiresAt says whether
\* accessTokenExpiresAt is set, and its value is in milliseconds
NoBundle ==
  [accessToken |-> Undefined, refreshToken |-> Undefined,
   hasExpiresAt |-> FALSE, accessTokenExpiresAt |-> 0]

\* a call of refreshAccessToken: its arguments, the request it has sent,
\* the answer and the clock reading it got, and the bundle it has returned
NoRefresh ==
  [refreshToken |-> Undefined, authentication |-> Undefined,
   extraParams |-> NoBody, request |-> NoTokenRequest,
   response |-> [error |-> FALSE, data |-> NoTokenData], now |-> 0,
   bundle |-> NoBundle]

\* part_001 lines 18-40 and 49-53: the request refreshAccessToken sends
RefreshRequest_AlwaysBody(refreshToken, opts, providerConfig) ==
  [tokenEndpoint |-> providerConfig.tokenEndpoint,
   method |-> "POST",
   contentType |-> "application/x-www-form-urlencoded",
   authorization |->
     IF providerConfig.authentication = "basic"
     THEN "Basic " \o btoa(opts.clientId, opts.clientSecret)
     ELSE Undefined,
   body |->
     [k \in BodyKeys |->
        IF providerConfig.extraParams[k] # Undefined
        THEN providerConfig.extraParams[k]
        ELSE [NoBody EXCEPT !["grant_type"] = "refresh_token",
                            !["refresh_token"] = refreshToken,
                            !["client_id"] = opts.clientId,
                            !["client_secret"] = opts.clientSecret][k]]]

RefreshRequest(refreshToken, opts, providerConfig) ==
  LET basic == providerConfig.authentication = "basic"
      granted == [NoBody EXCEPT !["grant_type"] = "refresh_token",
                                !["refresh_token"] = refreshToken]
      identified ==
        IF basic THEN granted
        ELSE [granted EXCEPT !["client_id"] = opts.clientId,
                             !["client_secret"] = opts.clientSecret]
  IN  [tokenEndpoint |-> providerConfig.tokenEndpoint,
       method |-> "POST",
       contentType |-> "application/x-www-form-urlencoded",
       authorization |->
         IF basic
         THEN "Basic " \o btoa(opts.clientId, opts.clientSecret)
         ELSE Undefined,
       body |->
         [k \in BodyKeys |->
            IF providerConfig.extraParams[k] # Undefined
            THEN providerConfig.extraParams[k]
            ELSE identified[k]]]

\* part_001 lines 54-73: what refreshAccessToken makes of the answer, with
\* now the reading of new Date()
RefreshResult(response, now) ==
  IF response.error
  THEN [threw |-> TRUE, bundle |-> NoBundle]
  ELSE LET data == response.data
           expires == data.hasExpiresIn /\ data.expires_in # 0
       IN  [threw |-> FALSE,
            bundle |->
              [accessToken |-> data.access_token,
               refreshToken |-> data.refresh_token,
               hasExpiresAt |-> expires,
               accessTokenExpiresAt |->
                 IF expires THEN now + data.expires_in * 1000 ELSE 0]]

\* ---------------------------------------------- the provider objects
\* The objects init adds to socialProviders (lines 194-299), one per
\* configured provider; each keeps its finalUserInfoUrl between calls.
\* provResp is the last result of one of their methods, with its arguments.
NoProviderResponse ==
  [op |-> "none", providerId |-> Undefined, tokens |-> NoTokens,
   tokenEndpoint |-> Undefined, finalUserInfoUrl |-> Undefined,
   fetched |-> FALSE, userinfo |-> NoUserInfoResponse,
   threw |-> FALSE, null |-> FALSE,
   user |-> [id |-> Undefined, email |-> <<>>], data |-> NullUser,
   refresh |-> NoRefresh]

\* part_001 lines 5-74: a call of refreshAccessToken
refreshAccessToken(refreshToken, opts, providerConfig, response, now) ==
  LET request == RefreshRequest(refreshToken, opts, providerConfig)
      result == RefreshResult(response, now)
  IN
  /\ provResp' =
       [NoProviderResponse EXCEPT
          !.op = "refreshAccessToken",
          !.tokenEndpoint = providerConfig.tokenEndpoint,
          !.threw = result.threw,
          !.refresh =
            [refreshToken |-> refreshToken,
             authentication |-> providerConfig.authentication,
             extraParams |-> providerConfig.extraParams,
             request |-> request, response |-> response,
             now |-> IF result.bundle.hasExpiresAt THEN now ELSE 0,
             bundle |-> result.bundle]]
  /\ UNCHANGED <<genericProviders, options, flows, accounts, sessions,
                 initResp, run>>

\* lines 214-244: validateAuthorizationCode of a provider object
providerValidateAuthorizationCode(id, discovery, res) ==
  LET c == FindProvider(id)
      found == Truthy(c.discoveryUrl) /\ discovery.data
      finalTokenUrl == IF found THEN discovery.token_endpoint ELSE c.tokenUrl
      called == [NoProviderResponse EXCEPT
                   !.op = "validateAuthorizationCode", !.providerId = id,
                   !.fetched = Truthy(c.discoveryUrl)]
  IN
  /\ genericProviders' =
       IF found
       THEN [genericProviders EXCEPT
               ![id].finalUserInfoUrl = discovery.userinfo_endpoint]
       ELSE genericProviders
  /\ provResp' =
       IF ~Truthy(finalTokenUrl) \/ res.threw
       THEN [called EXCEPT !.threw = TRUE]
       ELSE [called EXCEPT !.tokenEndpoint = finalTokenUrl,
                           !.tokens = res.tokens]
  /\ UNCHANGED <<options, flows, accounts, sessions, initResp, run>>

\* lines 245-274: refreshAccessToken of a provider object
providerRefreshAccessToken(id, refreshToken, discovery, response, now) ==
  LET c == FindProvider(id)
      found == Truthy(c.discoveryUrl) /\ discovery.data
      finalTokenUrl == IF found THEN discovery.token_endpoint ELSE c.tokenUrl
      called == [NoProviderResponse EXCEPT
                   !.op = "provider.refreshAccessToken", !.providerId = id,
                   !.fetched = Truthy(c.discoveryUrl),
                   !.refresh.refreshToken = refreshToken]
      providerConfig == [tokenEndpoint |-> finalTokenUrl,
                         authentication |-> Undefined,
                         extraParams |-> NoBody]
      result == RefreshResult(response, now)
  IN
  /\ provResp' =
       IF ~Truthy(finalTokenUrl) THEN [called EXCEPT !.threw = TRUE]
       ELSE [called EXCEPT
               !.tokenEndpoint = finalTokenUrl,
               !.threw = result.threw,
               !.refresh.request =
                 RefreshRequest(refreshToken,
                   [clientId |-> c.clientId, clientSecret |-> c.clientSecret],
                   providerConfig),
               !.refresh.response = response,
               !.refresh.now = IF result.bundle.hasExpiresAt THEN now ELSE 0,
               !.refresh.bundle = result.bundle]
  /\ UNCHANGED <<genericProviders, options, flows, accounts, sessions,
                 initResp, run>>

\* lines 276-297: getUserInfo of a provider object.  custom is what the
\* configured getUserInfo returns, response what the userinfo endpoint
\* answers, mapUser what mapProfileToUser returns, as a promise or not.
providerGetUserInfo(id, tokens, custom, response, mapUser, promise) ==
  LET c == FindProvider(id)
      finalUserInfoUrl == genericProviders[id].finalUserInfoUrl
      called == [NoProviderResponse EXCEPT
                   !.op = "getUserInfo", !.providerId = id,
                   !.tokens = tokens, !.finalUserInfoUrl = finalUserInfoUrl]
      g == IF c.getUserInfo
           THEN [threw |-> FALSE, fetched |-> FALSE, userInfo |-> custom]
           ELSE getUserInfo(tokens, finalUserInfoUrl, response)
      got == IF g.fetched
             THEN [called EXCEPT !.fetched = TRUE, !.userinfo = response]
             ELSE called
      \* {id, email, ..., ...c.mapProfileToUser?.(userInfo)}: the spread of
      \* a promise adds no field
      user == IF c.mapProfileToUser /\ ~promise
              THEN Spread(g.userInfo, mapUser)
              ELSE [id |-> g.userInfo.id, email |-> g.userInfo.email]
  IN
  /\ provResp' =
       IF ~Truthy(finalUserInfoUrl) THEN [called EXCEPT !.null = TRUE]
       ELSE IF g.threw THEN [got EXCEPT !.threw = TRUE]
       ELSE IF g.userInfo.null THEN [got EXCEPT !.null = TRUE]
       ELSE [got EXCEPT !.user = user, !.data = g.userInfo]
  /\ UNCHANGED <<genericProviders, options, flows, accounts, sessions,
                 initResp, run>>

\* ------------------------------------------------- oAuth2Callback actions
\* a request arrives and runs to its first await
oAuth2Callback(r, q) ==
  /\ run[r].pc = "idle"
  /\ run' = [run EXCEPT ![r] = OnRequest(@, q)]
  /\ UNCHANGED <<provs, options, flows, accounts, sessions, initResp>>

AwaitParseState(r) ==
  /\ run[r].pc = "parseState"
  /\ LET res == parseState(flows, run[r].req.state)
     IN  /\ flows' = res.store
         /\ run' = [run EXCEPT ![r] = OnParseState(@, res)]
  /\ UNCHANGED <<provs, options, accounts, sessions, initResp>>

AwaitDiscovery(r) ==
  /\ run[r].pc = "discovery"
  /\ \E discovery \in DiscoveryResponses :
       run' = [run EXCEPT ![r] = OnDiscovery(@, discovery)]
  /\ UNCHANGED <<provs, options, flows, accounts, sessions, initResp>>

AwaitValidateAuthorizationCode(r) ==
  /\ run[r].pc = "validateAuthorizationCode"
  /\ \E res \in TokenResponses :
       run' = [run EXCEPT ![r] = OnValidateAuthorizationCode(@, res)]
  /\ UNCHANGED <<provs, options, flows, accounts, sessions, initResp>>

AwaitGetUserInfo(r) ==
  /\ run[r].pc = "getUserInfo"
  /\ IF FindProvider(run[r].req.providerId).getUserInfo
     THEN \E userInfo \in UserInfos \cup {NullUser} :
            run' = [run EXCEPT ![r] =
                      OnUserInfo(Called(@, "provider.getUserInfo"), userInfo)]
     ELSE \E response \in UserInfoResponses :
            run' = [run EXCEPT ![r] = OnGetUserInfo(@, response)]
  /\ UNCHANGED <<provs, options, flows, accounts, sessions, initResp>>

AwaitMapProfileToUser(r) ==
  /\ run[r].pc = "mapProfileToUser"
  /\ \E mapUser \in MapResults :
       run' = [run EXCEPT ![r] = OnMapProfileToUser(@, mapUser)]
  /\ UNCHANGED <<provs, options, flows, accounts, sessions, initResp>>

AwaitCreateAccount(r) ==
  /\ run[r].pc = "createAccount"
  /\ \E created \in BOOLEAN :
       /\ accounts' = IF created THEN accounts \cup {AccountArgs(run[r])}
                      ELSE accounts
       /\ run' = [run EXCEPT ![r] = OnCreateAccount(@, created)]
  /\ UNCHANGED <<provs, options, flows, sessions, initResp>>

AwaitHandleOAuthUserInfo(r) ==
  /\ run[r].pc = "handleOAuthUserInfo"
  /\ \E result \in HandleResultsFor(HandleArgs(run[r])) :
       /\ sessions' = IF result.error = <<>>
                      THEN sessions \cup {run[r].req.state}
                      ELSE sessions
       /\ run' = [run EXCEPT ![r] = OnHandleOAuthUserInfo(@, result)]
  /\ UNCHANGED <<provs, options, flows, accounts, initResp>>

AwaitSetSessionCookie(r) ==
  /\ run[r].pc = "setSessionCookie"
  /\ run' = [run EXCEPT ![r] = OnSetSessionCookie(@)]
  /\ UNCHANGED <<provs, options, flows, accounts, sessions, initResp>>

\* the response is sent and the request's context is dropped
Respond(r) ==
  /\ run[r].pc = "done"
  /\ run' = [run EXCEPT ![r] = IdleRun]
  /\ UNCHANGED <<provs, options, flows, accounts, sessions, initResp>>

\* --------------------------------------------------------- specifications
Init ==
  /\ options \in
       { [errorURL |-> Undefined, allowDifferentEmails |-> Undefined],
         [errorURL |-> "/oops", allowDifferentEmails |-> "false"],
         [errorURL |-> "/oops", allowDifferentEmails |-> "true"] }
  /\ flows = <<>>
  /\ accounts = {}
  /\ sessions = {}
  /\ initResp = NoResponse
  /\ run = [r \in Runs |-> IdleRun]
  /\ genericProviders =
       [id \in ProviderIds |-> [finalUserInfoUrl |-> FindProvider(id).userInfoUrl]]
  /\ provResp = NoProviderResponse

\* the caller has received the response of an initiation endpoint
Deliver ==
  /\ initResp # NoResponse
  /\ initResp' = NoResponse
  /\ UNCHANGED <<provs, options, flows, accounts, sessions, run>>

\* no request is being served and no response is outstanding
Quiet == initResp = NoResponse /\ \A r \in Runs : run[r].pc = "idle"

\* the initiation endpoints, called with the given bodies by the given users
Initiate(signInBodies, users, linkBodies) ==
  \/ \E body \in signInBodies, discovery \in DiscoveryResponses :
       signInWithOAuth2(body, discovery)
  \/ \E user \in users, body \in linkBodies, discovery \in DiscoveryResponses :
       oAuth2LinkAccount(user, body, discovery)

Step(r) ==
  \/ AwaitParseState(r)
  \/ AwaitDiscovery(r)
  \/ AwaitValidateAuthorizationCode(r)
  \/ AwaitGetUserInfo(r)
  \/ AwaitMapProfileToUser(r)
  \/ AwaitCreateAccount(r)
  \/ AwaitHandleOAuthUserInfo(r)
  \/ AwaitSetSessionCookie(r)
  \/ Respond(r)

\* one request at a time, with every callback request
Next ==
  \/ Quiet /\ Initiate(SignInBodies, Users, LinkBodies)
  \/ Deliver
  \/ \E state \in 1..MaxFlows : Expire(state)
  \/ Quiet /\ \E q \in Requests : oAuth2Callback("r1", q)
  \/ Step("r1")

Spec == Init /\ [][Next]_vars

\* every flow is initiated for the provider "acme", and callback requests
\* come in on the path of every provider
NextOneProvider ==
  \/ Quiet /\ Initiate({b \in SignInBodies : b.providerId = "acme"},
                       Users,
                       {b \in LinkBodies : b.providerId = "acme"})
  \/ Deliver
  \/ \E state \in 1..MaxFlows : Expire(state)
  \/ Quiet /\ \E q \in Requests : oAuth2Callback("r1", q)
  \/ Step("r1")

SpecOneProvider == Init /\ [][NextOneProvider]_vars

\* the steps of a request that wait for no provider: the state store, the
\* account collaborators, mapProfileToUser, the cookie and the response
Local(r) ==
  \/ AwaitParseState(r)
  \/ AwaitMapProfileToUser(r)
  \/ AwaitCreateAccount(r)
  \/ AwaitHandleOAuthUserInfo(r)
  \/ AwaitSetSessionCookie(r)
  \/ Respond(r)

\* Spec with the event loop's guarantee that a request whose local step can
\* run does run, and with token and userinfo endpoints that answer.  The
\* await of the discovery document (lines 560-565) ends when the provider
\* answers; betterFetch is given no timeout, so nothing else makes it end.
SpecLive ==
  /\ Init
  /\ [][Next]_vars
  /\ WF_vars(Local("r1"))
  /\ WF_vars(AwaitValidateAuthorizationCode("r1"))
  /\ WF_vars(AwaitGetUserInfo("r1"))

\* one flow of one provider, and two callback requests at a time, each with
\* a code and a state value
NextConcurrent ==
  \/ Quiet /\ flows = <<>> /\
       Initiate({b \in SignInBodies :
                  b.providerId = "oidc" /\ b.callbackURL = "/cb"},
                {u \in Users : u.id = "u1"},
                {b \in LinkBodies : b.providerId = "oidc"})
  \/ Deliver
  \/ \E state \in 1..MaxFlows : Expire(state)
  \/ \E r \in Runs, q \in CodeRequests :
       initResp = NoResponse /\ oAuth2Callback(r, q)
  \/ \E r \in Runs : Step(r)

InitConcurrent ==
  /\ Init
  /\ options = [errorURL |-> Undefined, allowDifferentEmails |-> Undefined]

SpecConcurrent == InitConcurrent /\ [][NextConcurrent]_vars

\* the token bundles a code exchange may return
TokenBundles == {res.tokens : res \in {t \in TokenResponses : ~t.threw}}

\* what the environment of getUserInfo of a provider object may answer: the
\* configured getUserInfo, the userinfo endpoint and mapProfileToUser are
\* asked only where the provider has them
CustomResults(id) ==
  IF FindProvider(id).getUserInfo THEN UserInfos \cup {NullUser}
  ELSE {NullUser}

FetchResults(id) ==
  IF FindProvider(id).getUserInfo THEN {NoUserInfoResponse}
  ELSE UserInfoResponses

MapResultsOf(id) ==
  IF FindProvider(id).mapProfileToUser THEN MapResults ELSE {NoMap}

PromiseOf(id) ==
  IF FindProvider(id).mapProfileToUser THEN BOOLEAN ELSE {FALSE}

\* the arguments of the calls of refreshAccessToken
RefreshTokens == {"rt1"}

ProviderOptions ==
  {[clientId |-> c.clientId, clientSecret |-> c.clientSecret] :
     c \in {FindProvider("acme")}}

RefreshConfigs ==
  [tokenEndpoint : {"acme/token"},
   authentication : {Undefined, "basic", "post"},
   extraParams : {NoBody,
                  [NoBody EXCEPT !["audience"] = "api"],
                  [NoBody EXCEPT !["grant_type"] = "client_credentials"],
                  [NoBody EXCEPT !["client_id"] = "other-id"]}]

\* the document the discovery URL of a provider answers a refresh with
RefreshDiscoveries(id) ==
  IF Truthy(FindProvider(id).discoveryUrl) THEN DiscoveryResponses
  ELSE {NoDiscovery}

\* the methods of the provider objects, as the framework calls them
NextProviders ==
  \/ \E refreshToken \in RefreshTokens, o \in ProviderOptions,
        providerConfig \in RefreshConfigs :
       \E response \in RefreshResponses, now \in 0..MaxNow :
         refreshAccessToken(refreshToken, o, providerConfig, response, now)
  \/ \E id \in ProviderIds, refreshToken \in RefreshTokens :
       \E discovery \in RefreshDiscoveries(id),
          response \in RefreshResponses, now \in 0..MaxNow :
         providerRefreshAccessToken(id, refreshToken, discovery, response, now)
  \/ \E id \in ProviderIds, discovery \in DiscoveryResponses,
        res \in TokenResponses :
       providerValidateAuthorizationCode(id, discovery, res)
  \/ \E id \in ProviderIds, tokens \in TokenBundles :
       \E custom \in CustomResults(id), response \in FetchResults(id),
          mapUser \in MapResultsOf(id), promise \in PromiseOf(id) :
         providerGetUserInfo(id, tokens, custom, response, mapUser, promise)

SpecProviders == InitConcurrent /\ [][NextProviders]_vars

\* ------------------------------------------------------------ properties
Has(rec, op) == \E i \in 1..Len(rec.calls) : rec.calls[i] = op

Count(rec, op) == Cardinality({i \in 1..Len(rec.calls) : rec.calls[i] = op})

\* the request has called parseState and parseState has failed
ParseFailed(rec) == Has(rec, "parseState") /\ ~rec.parsed

\* the request has got to the code exchange
ReachedExchange(rec) ==
  rec.pc = "validateAuthorizationCode" \/ Has(rec, "validateAuthorizationCode")

\* the request has called neither the account collaborators nor
\* setSessionCookie
NoAccountOrSession(rec) ==
  /\ ~Has(rec, "createAccount")
  /\ ~Has(rec, "handleOAuthUserInfo")
  /\ ~Has(rec, "setSessionCookie")
  /\ rec.account = NoAccount
  /\ ~rec.cookie

\* the request has ended with a redirect that carries an error code
FailedRedirect(rec) ==
  /\ rec.pc = "done"
  /\ rec.outcome.kind = "redirect"
  /\ Truthy(rec.outcome.error) \/ rec.outcome.errorChars # <<>>

\* the request is past the e-mail check and past mapProfileToUser
Branched(rec) ==
  /\ rec.resolved
  /\ ~EmailMissing(rec.userInfo)
  /\ rec.pc # "mapProfileToUser"

\* C1: of two callback requests that carry the same state value and a code,
\* at most one gets past parseState and to the code exchange, and the one
\* parseState has failed ends in a redirect with an error code, having made
\* no token-endpoint call, no createAccount, no handleOAuthUserInfo and no
\* setSessionCookie call.
C1_ReplayRejected ==
  \A r1 \in Runs, r2 \in Runs :
    ( /\ r1 # r2
      /\ run[r1].req.state # 0
      /\ run[r1].req.state = run[r2].req.state )
    => /\ ~(run[r1].parsed /\ run[r2].parsed)
       /\ ~(ReachedExchange(run[r1]) /\ ReachedExchange(run[r2]))
       /\ ParseFailed(run[r2]) =>
            /\ FailedRedirect(run[r2])
            /\ ~ReachedExchange(run[r2])
            /\ NoAccountOrSession(run[r2])

\* C1 witness: two requests with the same state value, one of which has
\* made the code exchange while the other has been turned away
C1_Witness ==
  \E r1 \in Runs, r2 \in Runs :
    /\ r1 # r2
    /\ run[r1].req.state # 0
    /\ run[r1].req.state = run[r2].req.state
    /\ Has(run[r1], "validateAuthorizationCode")
    /\ ParseFailed(run[r2])
    /\ run[r2].pc = "done"

\* C2: a request whose parseState fails (state missing, never issued,
\* expired or consumed) ends there in a redirect with an error code: it has
\* no FlowState, parseState is the only call it has made (no discovery fetch,
\* no token-endpoint call, no userinfo call, no collaborator call) and it
\* sets no session cookie; only a state value that was live in the store,
\* and is consumed now, gets a request past parseState.
C2_InvalidStateIsFatal ==
  \A r \in Runs :
    /\ ParseFailed(run[r]) =>
         /\ FailedRedirect(run[r])
         /\ run[r].parsedState = NoFlowState
         /\ run[r].calls = <<"parseState">>
         /\ NoAccountOrSession(run[r])
    /\ Has(run[r], "parseState") /\ run[r].req.state = 0 => ~run[r].parsed
    /\ run[r].parsed =>
         /\ run[r].req.state \in 1..Len(flows)
         /\ flows[run[r].req.state].status = "consumed"

\* C2 witness: a request with an expired state value has been turned away
C2_Witness ==
  \E r \in Runs :
    /\ ParseFailed(run[r])
    /\ run[r].pc = "done"
    /\ run[r].req.state \in 1..Len(flows)
    /\ flows[run[r].req.state].status = "expired"

\* C3: a request that carries an error code (a non-empty error parameter)
\* or no code (none, or an empty one) ends in a redirect to the configured
\* error URL whose error parameter is the provider's error code when there
\* is one and oAuth_code_missing otherwise, having called neither parseState
\* nor the token endpoint nor a collaborator.
C3_ErrorOrMissingCode ==
  \A r \in Runs :
    ( /\ run[r].pc # "idle"
      /\ Truthy(run[r].req.error) \/ ~Truthy(run[r].req.code) )
    => /\ run[r].pc = "done"
       /\ run[r].outcome.kind = "redirect"
       /\ run[r].outcome.url = Or(options.errorURL, BaseErrorURL)
       /\ run[r].outcome.error =
            IF Truthy(run[r].req.error) THEN run[r].req.error
            ELSE "oAuth_code_missing"
       /\ run[r].calls = <<>>
       /\ NoAccountOrSession(run[r])

\* C3 witness: error=access_denied has been answered with the redirect that
\* carries access_denied and the description
C3_Witness ==
  \E r \in Runs :
    /\ run[r].pc = "done"
    /\ run[r].req.error = "access_denied"
    /\ run[r].req.code = "c1"
    /\ run[r].outcome.error = "access_denied"
    /\ run[r].outcome.desc = "denied"
    /\ run[r].outcome.url = "/oops"

\* C4: a request whose code exchange fails ends in a redirect with
\* error=oauth_code_verification_failed, not in an error passed to the
\* caller, and makes no userinfo call, no createAccount, no
\* handleOAuthUserInfo and no setSessionCookie call.
C4_ExchangeFailureRedirects ==
  \A r \in Runs :
    Has(run[r], "validateAuthorizationCode") /\ run[r].tokens = NoTokens
    => /\ run[r].pc = "done"
       /\ run[r].outcome.kind = "redirect"
       /\ run[r].outcome.error = "oauth_code_verification_failed"
       /\ ~Has(run[r], "userinfo")
       /\ ~Has(run[r], "provider.getUserInfo")
       /\ ~run[r].resolved
       /\ NoAccountOrSession(run[r])

\* C4 witness: a code exchange has failed after a successful discovery
C4_Witness ==
  \E r \in Runs :
    /\ run[r].pc = "done"
    /\ run[r].calls = <<"parseState", "discovery", "validateAuthorizationCode">>
    /\ run[r].tokens = NoTokens

\* C5: a request whose resolved identity is null or has no e-mail ends in a
\* redirect with error=email_is_missing, without a call of mapProfileToUser,
\* createAccount, handleOAuthUserInfo or setSessionCookie, in the link
\* branch and in the sign-in branch alike.
C5_EmailMissing ==
  \A r \in Runs :
    ( /\ run[r].resolved
      /\ run[r].userInfo.null \/ run[r].userInfo.email = <<>> )
    => /\ run[r].pc = "done"
       /\ run[r].outcome.kind = "redirect"
       /\ run[r].outcome.error = "email_is_missing"
       /\ ~Has(run[r], "mapProfileToUser")
       /\ NoAccountOrSession(run[r])

\* C5 witness: a link flow on a provider with mapProfileToUser got an
\* identity without e-mail
C5_Witness ==
  \E r \in Runs :
    /\ run[r].pc = "done"
    /\ run[r].resolved
    /\ ~run[r].userInfo.null
    /\ run[r].userInfo.email = <<>>
    /\ run[r].parsedState.link # NoLink
    /\ FindProvider(run[r].req.providerId).mapProfileToUser

\* C6: in the link branch, when allowDifferentEmails is not true and the
\* identity's e-mail is another address than the link target's (they differ
\* whatever the letter case), the request ends in a redirect with
\* error=email_doesn't_match and createAccount is not called.
C6_LinkMismatch ==
  \A r \in Runs :
    ( /\ run[r].parsedState.link # NoLink
      /\ Branched(run[r])
      /\ options.allowDifferentEmails # "true"
      /\ toLowerCase(run[r].parsedState.link.email)
           # toLowerCase(run[r].userInfo.email) )
    => /\ run[r].pc = "done"
       /\ run[r].outcome.kind = "redirect"
       /\ run[r].outcome.error = "email_doesn't_match"
       /\ NoAccountOrSession(run[r])

\* C6 witness: a mismatch was rejected with allowDifferentEmails unset
C6_Witness ==
  \E r \in Runs :
    /\ run[r].pc = "done"
    /\ run[r].outcome.error = "email_doesn't_match"
    /\ options.allowDifferentEmails = Undefined
    /\ toLowerCase(run[r].parsedState.link.email)
         # toLowerCase(run[r].userInfo.email)

\* C7: in the link branch, a link-target e-mail and an identity e-mail that
\* are equal strings, in whatever letter case, count as matching: the
\* request calls createAccount, once, with the link target's user id and the
\* callback's provider id, and then redirects to the FlowState's callback
\* URL (or reports that createAccount returned nothing).
C7_SameAddressLinks ==
  \A r \in Runs :
    ( /\ run[r].parsedState.link # NoLink
      /\ Branched(run[r])
      /\ run[r].parsedState.link.email = run[r].userInfo.email )
    => \/ run[r].pc = "createAccount"
       \/ /\ run[r].pc = "done"
          /\ Count(run[r], "createAccount") = 1
          /\ run[r].account.userId = run[r].parsedState.link.userId
          /\ run[r].account.providerId = run[r].req.providerId
          /\ \/ run[r].outcome = RedirectTo(run[r].parsedState.callbackURL)
             \/ run[r].outcome.error = "unable_to_link_account"

\* C8: a request whose FlowState carries a link target calls neither
\* handleOAuthUserInfo nor setSessionCookie on any path, sets no cookie, and
\* no session is created for its flow.
C8_LinkLeavesSessions ==
  \A r \in Runs :
    run[r].parsedState.link # NoLink
    => /\ ~Has(run[r], "handleOAuthUserInfo")
       /\ ~Has(run[r], "setSessionCookie")
       /\ run[r].pc \notin {"handleOAuthUserInfo", "setSessionCookie"}
       /\ ~run[r].cookie
       /\ run[r].req.state \notin sessions

\* C8 witness: a link flow has created its account and redirected
C8_Witness ==
  \E r \in Runs :
    /\ run[r].parsedState.link # NoLink
    /\ run[r].pc = "done"
    /\ Has(run[r], "createAccount")
    /\ run[r].outcome = RedirectTo(run[r].parsedState.callbackURL)

\* C9: in the sign-in branch, once handleOAuthUserInfo has succeeded the
\* request redirects only after setSessionCookie, to the FlowState's
\* newUserURL when the result is a registration and a newUserURL is there,
\* and to the FlowState's callbackURL otherwise.
C9_SignInRedirect ==
  \A r \in Runs :
    Has(run[r], "handleOAuthUserInfo") /\ run[r].result.error = <<>>
    => \/ /\ run[r].pc = "setSessionCookie"
          /\ run[r].outcome = NoOutcome
       \/ /\ run[r].pc = "done"
          /\ run[r].cookie
          /\ run[r].calls[Len(run[r].calls)] = "setSessionCookie"
          /\ run[r].outcome =
               RedirectTo(
                 IF run[r].result.isRegister /\ Truthy(run[r].parsedState.newUserURL)
                 THEN run[r].parsedState.newUserURL
                 ELSE run[r].parsedState.callbackURL)

\* C9 witness: a sign-in of an existing user on a flow with a newUserURL
\* has been redirected to the callbackURL
C9_Witness ==
  \E r \in Runs :
    /\ run[r].pc = "done"
    /\ run[r].cookie
    /\ ~run[r].result.isRegister
    /\ run[r].parsedState.newUserURL = "/new"
    /\ run[r].outcome.url = "/cb"

\* C10: in the sign-in branch, when handleOAuthUserInfo returns an error the
\* request ends in a redirect to the flow's error URL whose error code is
\* the error message with every space replaced by an underscore, and
\* setSessionCookie is not called.
C10_CollaboratorError ==
  \A r \in Runs :
    Has(run[r], "handleOAuthUserInfo") /\ run[r].result.error # <<>>
    => /\ run[r].pc = "done"
       /\ run[r].outcome.kind = "redirect"
       /\ run[r].outcome.url = ErrorTarget(run[r])
       /\ Len(run[r].outcome.errorChars) = Len(run[r].result.error)
       /\ \A i \in 1..Len(run[r].result.error) :
            run[r].outcome.errorChars[i] =
              IF run[r].result.error[i] = " " THEN "_"
              ELSE run[r].result.error[i]
       /\ ~Has(run[r], "setSessionCookie")
       /\ ~run[r].cookie

\* C10 witness: a message of three words has become a code with two
\* underscores
C10_Witness ==
  \E r \in Runs :
    /\ run[r].pc = "done"
    /\ run[r].result.error = <<"x", " ", "x", " ", "x">>
    /\ run[r].outcome.errorChars = <<"x", "_", "x", "_", "x">>

\* the request uses the default identity extractor and is past it
DefaultExtracted(rec) ==
  /\ rec.resolved
  /\ ~FindProvider(rec.req.providerId).getUserInfo

\* C11: when a provider has a discovery URL and its fetch has data, sign-in
\* initiation returns an authorization URL built on the document's
\* authorization_endpoint, and the callback exchanges the code at the
\* document's token_endpoint and fetches the identity from the document's
\* userinfo_endpoint, whatever the static configuration says; the static
\* endpoints are the ones used exactly when there is no discovery URL or its
\* fetch has no data.
C11_DiscoveryPrecedence ==
  /\ initResp.op = "signInWithOAuth2" /\ initResp.status = "ok"
     => /\ initResp.served.data => initResp.fetched
        /\ initResp.url =
             IF initResp.served.data
             THEN initResp.served.authorization_endpoint
             ELSE FindProvider(initResp.providerId).authorizationUrl
  /\ \A r \in Runs :
       LET rec == run[r]
           provider == FindProvider(rec.req.providerId)
       IN  /\ ReachedExchange(rec)
              => /\ Truthy(provider.discoveryUrl) => Has(rec, "discovery")
                 /\ rec.finalTokenUrl =
                      IF rec.discovery.data THEN rec.discovery.token_endpoint
                      ELSE provider.tokenUrl
           /\ Has(rec, "userinfo")
              => rec.finalUserInfoUrl =
                   IF rec.discovery.data THEN rec.discovery.userinfo_endpoint
                   ELSE provider.userInfoUrl

\* C11 witness: a callback of a provider with static endpoints and a
\* discovery document has exchanged its code and fetched the identity at
\* the discovered endpoints
C11_Witness ==
  \E r \in Runs :
    /\ Has(run[r], "validateAuthorizationCode")
    /\ Has(run[r], "userinfo")
    /\ run[r].discovery.data
    /\ Truthy(FindProvider(run[r].req.providerId).tokenUrl)
    /\ Truthy(FindProvider(run[r].req.providerId).userInfoUrl)
    /\ run[r].finalTokenUrl = "discovered/token"
    /\ run[r].finalUserInfoUrl = "discovered/userinfo"

\* C12: link initiation for a provider that has a static authorizationUrl
\* and a discovery URL that serves a document returns an authorization URL
\* built on the document's authorization_endpoint.
C12_LinkDiscoveryOverrides ==
  ( /\ initResp.op = "oAuth2LinkAccount"
    /\ initResp.providerId \in ProviderIds
    /\ initResp.message # "Social account already linked"
    /\ Truthy(FindProvider(initResp.providerId).authorizationUrl)
    /\ initResp.served.data )
  => /\ initResp.status = "ok"
     /\ initResp.url = initResp.served.authorization_endpoint

\* C13: sign-in initiation for a configured provider is rejected with
\* BAD_REQUEST 'Invalid OAuth configuration' exactly when neither a fetched
\* discovery document nor the static configuration supplies an
\* authorization endpoint, and returns an authorization URL in every other
\* case.
C13_InvalidConfigurationIff ==
  ( /\ initResp.op = "signInWithOAuth2"
    /\ initResp.providerId \in ProviderIds )
  => LET supplied ==
           \/ Truthy(initResp.served.authorization_endpoint)
           \/ Truthy(FindProvider(initResp.providerId).authorizationUrl)
     IN  /\ ( /\ initResp.status = "BAD_REQUEST"
              /\ initResp.message = "Invalid OAuth configuration" )
            <=> ~supplied
         /\ supplied => initResp.status = "ok" /\ Truthy(initResp.url)

\* C14: a callback that has no token endpoint after its discovery attempt
\* ends in an APIError BAD_REQUEST, not in a redirect, and makes no
\* token-endpoint call.
C14_MissingTokenEndpointIsAPIError ==
  \A r \in Runs :
    ( /\ run[r].parsed
      /\ run[r].pc = "done"
      /\ ~Truthy(run[r].finalTokenUrl) )
    => /\ run[r].outcome.kind = "apierror"
       /\ run[r].outcome.error = "BAD_REQUEST"
       /\ ~Has(run[r], "validateAuthorizationCode")

\* C15: every callback request that has ended has ended in a redirect.
C15_AlwaysRedirect ==
  \A r \in Runs : run[r].pc = "done" => run[r].outcome.kind = "redirect"

\* C16: with the default identity extractor, an ID token whose payload has
\* sub and email gives the identity (its sub as id, its email) without a
\* call of the userinfo endpoint; the userinfo endpoint is called only when
\* the ID token is absent or lacks sub or email and a userinfo endpoint is
\* known.
C16_IdTokenFirst ==
  \A r \in Runs :
    /\ DefaultExtracted(run[r]) /\ IdTokenSuffices(run[r].tokens)
       => /\ ~Has(run[r], "userinfo")
          /\ run[r].userinfo = NoUserInfoResponse
          /\ run[r].userInfo =
               [null |-> FALSE, id |-> run[r].tokens.idToken.sub,
                email |-> run[r].tokens.idToken.email]
    /\ Has(run[r], "userinfo")
       => /\ ~FindProvider(run[r].req.providerId).getUserInfo
          /\ Truthy(run[r].finalUserInfoUrl)
          /\ \/ run[r].tokens.idToken.kind = "none"
             \/ ~Truthy(run[r].tokens.idToken.sub)
             \/ run[r].tokens.idToken.email = <<>>

\* C16 witness: a userinfo endpoint is known and the ID token has sub and
\* email; the identity is the ID token's and no userinfo call was made
C16_Witness ==
  \E r \in Runs :
    /\ DefaultExtracted(run[r])
    /\ IdTokenSuffices(run[r].tokens)
    /\ Truthy(run[r].finalUserInfoUrl)
    /\ run[r].userInfo.id = "sub1"
    /\ ~Has(run[r], "userinfo")

\* C17: getUserInfo of a provider object with the default extractor returns
\* the identity of an ID token that has sub and email, also when the
\* provider has no userinfo endpoint.
C17_IdTokenSufficesAlone ==
  ( /\ provResp.op = "getUserInfo"
    /\ ~FindProvider(provResp.providerId).getUserInfo
    /\ IdTokenSuffices(provResp.tokens) )
  => /\ ~provResp.null
     /\ ~provResp.threw
     /\ provResp.data.id = provResp.tokens.idToken.sub
     /\ provResp.data.email = provResp.tokens.idToken.email

\* C18: the default identity extractor returns null when there is no usable
\* ID token and either no userinfo endpoint is known or the userinfo call
\* has no data.
C18_NoDataNoIdentity ==
  \A r \in Runs :
    ( /\ DefaultExtracted(run[r])
      /\ ~IdTokenSuffices(run[r].tokens)
      /\ \/ ~Truthy(run[r].finalUserInfoUrl)
         \/ Has(run[r], "userinfo") /\ ~run[r].userinfo.data )
    => run[r].userInfo = NullUser

\* C19: every field mapProfileToUser returns is the one the callback uses
\* afterwards: the id and e-mail handed to handleOAuthUserInfo, and the
\* accountId of createAccount and of handleOAuthUserInfo's account.
C19_MappingOverrides ==
  \A r \in Runs :
    ( /\ Has(run[r], "mapProfileToUser")
      /\ run[r].mapUser.id # Undefined )
    => /\ Has(run[r], "createAccount")
          => run[r].account.accountId = run[r].mapUser.id
       /\ Has(run[r], "handleOAuthUserInfo")
          => /\ run[r].handle.id = run[r].mapUser.id
             /\ run[r].handle.email = run[r].mapUser.email
             /\ run[r].handle.accountId = run[r].mapUser.id

\* the link request that initResp answers was made by a user who has an
\* account of the requested provider
LinkedAlready ==
  \E a \in accounts :
    a.userId = initResp.userId /\ a.providerId = initResp.providerId

\* a link request has been rejected: nothing was fetched, no URL returned
RejectedLink(status, message) ==
  /\ initResp.status = status
  /\ initResp.message = message
  /\ ~initResp.fetched
  /\ initResp.url = Undefined
  /\ initResp.state = 0

\* C20: link initiation by a user who has an account of the requested
\* provider is rejected with BAD_REQUEST, and otherwise link initiation for
\* an unknown provider is rejected with NOT_FOUND; a rejected link
\* initiation fetches no discovery document, returns no authorization URL
\* and leaves the FlowState store as it was.
C20_LinkRejections ==
  /\ [](initResp.op = "oAuth2LinkAccount"
        => /\ LinkedAlready
              => RejectedLink("BAD_REQUEST", "Social account already linked")
           /\ ~LinkedAlready /\ initResp.providerId \notin ProviderIds
              => RejectedLink("NOT_FOUND", "Provider not found"))
  /\ [][ ( /\ initResp' # initResp
           /\ initResp'.op = "oAuth2LinkAccount"
           /\ initResp'.message \in {"Social account already linked",
                                     "Provider not found"} )
         => flows' = flows ]_vars

\* C20 witness: a user who has linked an account of a provider asks to link
\* that provider again and is turned away
C20_Witness ==
  /\ initResp.op = "oAuth2LinkAccount"
  /\ LinkedAlready
  /\ initResp.status = "BAD_REQUEST"
  /\ initResp.message = "Social account already linked"

\* C21: a FlowState gets a link target exactly when link initiation stores
\* it, and the link target is then the id and e-mail of the user whose
\* session made the request; a stored FlowState is not changed until it is
\* consumed or expires, the callback works on the FlowState as stored, and
\* every account the callback creates belongs to the link target's user.
C21_LinkTargetIsInitiator ==
  [][ /\ Len(flows') >= Len(flows)
      /\ Len(flows') > Len(flows)
         => LET new == flows'[Len(flows')]
            IN  \/ /\ initResp'.op = "signInWithOAuth2"
                   /\ new.link = NoLink
                \/ /\ initResp'.op = "oAuth2LinkAccount"
                   /\ new.link # NoLink
                   /\ new.link.userId = initResp'.userId
                   /\ \E u \in Users :
                        u.id = initResp'.userId /\ new.link.email = u.email
      /\ \A i \in 1..Len(flows) :
           \/ flows'[i] = flows[i]
           \/ flows'[i].status \in {"consumed", "expired"}
      /\ \A r \in Runs :
           run'[r].parsed /\ ~run[r].parsed
           => run'[r].parsedState = flows[run[r].req.state]
      /\ \A a \in accounts' \ accounts :
           \E r \in Runs :
             /\ run[r].pc = "createAccount"
             /\ run[r].parsedState.link # NoLink
             /\ a.userId = run[r].parsedState.link.userId
    ]_vars

\* C21 witness: the link flow of user u2 has created an account, and the
\* account is u2's
C21_Witness ==
  \E r \in Runs :
    /\ Has(run[r], "createAccount")
    /\ run[r].parsedState.link.userId = "u2"
    /\ run[r].account.userId = "u2"
    /\ run[r].account \in accounts

\* C22: the authorization URL sign-in initiation returns carries, for every
\* key of the provider's authorizationUrlParams, the value configured there
C22_ExtraParamsWin ==
  (initResp.op = "signInWithOAuth2" /\ initResp.status = "ok")
  => \A k \in ParamKeys :
       FindProvider(initResp.providerId).authorizationUrlParams[k] # Undefined
       => initResp.params[k] =
            FindProvider(initResp.providerId).authorizationUrlParams[k]

\* a refresh call has sent its request to the token endpoint
RefreshSent ==
  /\ provResp.op \in {"refreshAccessToken", "provider.refreshAccessToken"}
  /\ provResp.refresh.request # NoTokenRequest

\* C23: the refresh request of a provider configured with authentication
\* "basic" carries the client credentials in a Basic Authorization header
\* and not in the body; with "post" or no setting it carries them as body
\* parameters
C23_CredentialsAsConfigured ==
  (provResp.op = "provider.refreshAccessToken" /\ RefreshSent)
  => LET c == FindProvider(provResp.providerId)
         request == provResp.refresh.request
     IN  IF c.authentication = "basic"
         THEN /\ request.authorization =
                   "Basic " \o btoa(c.clientId, c.clientSecret)
              /\ request.body["client_id"] = Undefined
              /\ request.body["client_secret"] = Undefined
         ELSE /\ request.authorization = Undefined
              /\ request.body["client_id"] = c.clientId
              /\ request.body["client_secret"] = c.clientSecret

\* the body parameters refreshAccessToken is to send when extraParams names
\* none of them
RefreshDefaults(refreshToken, opts, authentication) ==
  [k \in BodyKeys |->
     IF k = "grant_type" THEN "refresh_token"
     ELSE IF k = "refresh_token" THEN refreshToken
     ELSE IF k = "client_id" /\ authentication # "basic" THEN opts.clientId
     ELSE IF k = "client_secret" /\ authentication # "basic"
     THEN opts.clientSecret
     ELSE Undefined]

\* the Authorization header refreshAccessToken is to send
RefreshAuthorization(opts, authentication) ==
  IF authentication = "basic"
  THEN "Basic " \o btoa(opts.clientId, opts.clientSecret)
  ELSE Undefined

\* C24 as stated: every request of refreshAccessToken is form-url-encoded,
\* carries grant_type=refresh_token and the refresh token supplied, has the
\* client credentials in the Basic header alone with "basic" and in the
\* body alone otherwise, and carries every entry of extraParams
C24_RefreshRequestShape ==
  provResp.op = "refreshAccessToken"
  => \A opts \in ProviderOptions :
       LET call == provResp.refresh
           defaults ==
             RefreshDefaults(call.refreshToken, opts, call.authentication)
       IN  /\ call.request.contentType = "application/x-www-form-urlencoded"
           /\ call.request.authorization =
                RefreshAuthorization(opts, call.authentication)
           /\ \A k \in BodyKeys \ {"audience"} :
                call.request.body[k] = defaults[k]
           /\ \A k \in BodyKeys :
                call.extraParams[k] # Undefined
                => call.request.body[k] = call.extraParams[k]

\* C24 amended: the same, with the body parameters of the keys that
\* extraParams names carrying the value of extraParams, and the others
\* grant_type, refresh_token and the credentials as stated
C24_RefreshRequestShapeAmended ==
  provResp.op = "refreshAccessToken"
  => \A opts \in ProviderOptions :
       LET call == provResp.refresh
           defaults ==
             RefreshDefaults(call.refreshToken, opts, call.authentication)
       IN  /\ call.request.contentType = "application/x-www-form-urlencoded"
           /\ call.request.authorization =
                RefreshAuthorization(opts, call.authentication)
           /\ \A k \in BodyKeys :
                call.request.body[k] =
                  IF call.extraParams[k] # Undefined
                  THEN call.extraParams[k]
                  ELSE defaults[k]

\* C24 witness: a refresh with "basic" and an extra parameter has sent the
\* header, the extra parameter and no credentials in the body
C24_Witness ==
  /\ provResp.op = "refreshAccessToken"
  /\ provResp.refresh.authentication = "basic"
  /\ provResp.refresh.extraParams["audience"] = "api"
  /\ provResp.refresh.request.authorization # Undefined
  /\ provResp.refresh.request.body["audience"] = "api"
  /\ provResp.refresh.request.body["client_id"] = Undefined
  /\ provResp.refresh.request.body["grant_type"] = "refresh_token"

\* C25: a refresh whose HTTP call fails or whose answer is an error payload
\* throws and returns no bundle; it returns a bundle only for a token
\* response
C25_RefreshFailsOnError ==
  RefreshSent
  => LET call == provResp.refresh
         failed == call.response.error \/ call.response.data.error # Undefined
     IN  /\ failed => (provResp.threw /\ call.bundle = NoBundle)
         /\ ~provResp.threw
            => (~failed /\ call.response.data.access_token # Undefined)

\* C26: the bundle of a refresh has accessTokenExpiresAt exactly when the
\* token response has expires_in, and it is then the time of receipt plus
\* expires_in seconds
C26_ExpiryFromExpiresIn ==
  (RefreshSent /\ ~provResp.threw)
  => LET call == provResp.refresh
     IN  /\ call.bundle.hasExpiresAt <=> call.response.data.hasExpiresIn
         /\ call.bundle.hasExpiresAt
            => call.bundle.accessTokenExpiresAt =
                 call.now + call.response.data.expires_in * 1000

\* C27: getUserInfo of a provider object answers as it does when no
\* validateAuthorizationCode has run before it, whatever has run: it
\* returns null for want of a userinfo URL exactly when the provider is
\* configured without one
C27_GetUserInfoIgnoresHistory ==
  provResp.op = "getUserInfo"
  => ((provResp.null /\ ~Truthy(provResp.finalUserInfoUrl))
      <=> ~Truthy(FindProvider(provResp.providerId).userInfoUrl))

\* C28: a callback request that waits for a provider's discovery document
\* ends, whether the provider answers or not
C28_CallbackTerminates ==
  \A r \in Runs : (run[r].pc = "discovery") ~> (run[r].pc = "done")

\* the request has made the call op, and a call of before earlier
Preceded(rec, before, op) ==
  \A i \in 1..Len(rec.calls) :
    rec.calls[i] = op => \E k \in 1..(i - 1) : rec.calls[k] = before

\* the request is at, or past, the resolution of the identity
AtIdentity(rec) ==
  \/ rec.pc \in {"getUserInfo", "mapProfileToUser"}
  \/ rec.resolved
  \/ Has(rec, "userinfo")

\* the request is at, or past, a call of an account collaborator or of
\* setSessionCookie
AtAccount(rec) ==
  \/ rec.pc \in {"createAccount", "handleOAuthUserInfo", "setSessionCookie"}
  \/ Has(rec, "createAccount")
  \/ Has(rec, "handleOAuthUserInfo")
  \/ Has(rec, "setSessionCookie")

\* the three ways a request ends
SessionEstablished(rec) ==
  /\ rec.cookie
  /\ Has(rec, "handleOAuthUserInfo")
  /\ rec.result.error = <<>>
  /\ rec.outcome.kind = "redirect"
  /\ ~FailedRedirect(rec)

AccountLinked(rec) ==
  /\ Has(rec, "createAccount")
  /\ rec.outcome.kind = "redirect"
  /\ ~FailedRedirect(rec)

Failed(rec) == rec.outcome.kind \in {"apierror", "exception"} \/ FailedRedirect(rec)

\* C29: in every callback request the FlowState is consumed before the code
\* exchange, the exchange has returned tokens before the identity is
\* resolved, the identity has an e-mail before createAccount,
\* handleOAuthUserInfo or setSessionCookie is called, there is at most one
\* exchange and at most one userinfo fetch, no request calls both
\* createAccount and handleOAuthUserInfo or setSessionCookie, and a request
\* that has ended has established a session, linked an account or failed,
\* and only one of the three
C29_StateMachineOrder ==
  \A r \in Runs :
    LET rec == run[r]
    IN  /\ ReachedExchange(rec) => (rec.parsed /\ rec.calls[1] = "parseState")
        /\ Preceded(rec, "parseState", "validateAuthorizationCode")
        /\ AtIdentity(rec)
           => /\ Has(rec, "validateAuthorizationCode")
              /\ rec.tokens # NoTokens
        /\ Preceded(rec, "validateAuthorizationCode", "userinfo")
        /\ AtAccount(rec)
           => /\ rec.resolved
              /\ ~rec.userInfo.null
              /\ rec.userInfo.email # <<>>
        /\ Count(rec, "validateAuthorizationCode") <= 1
        /\ Count(rec, "userinfo") <= 1
        /\ Count(rec, "parseState") <= 1
        /\ ~(Has(rec, "createAccount")
             /\ (Has(rec, "handleOAuthUserInfo") \/ rec.cookie))
        /\ rec.pc = "done"
           => Cardinality({k \in {"session", "linked", "failed"} :
                \/ k = "session" /\ SessionEstablished(rec)
                \/ k = "linked" /\ AccountLinked(rec)
                \/ k = "failed" /\ Failed(rec)}) = 1

\* C29 witness: a request has gone through every step of the sign-in
\* branch, userinfo fetch included, and has established a session
C29_Witness ==
  \E r \in Runs :
    /\ run[r].pc = "done"
    /\ SessionEstablished(run[r])
    /\ Has(run[r], "userinfo")
    /\ run[r].calls[1] = "parseState"
    /\ Has(run[r], "validateAuthorizationCode")
    /\ Has(run[r], "setSessionCookie")

\* C30: where every FlowState has been initiated for the provider "acme",
\* a callback request on the path of another provider that carries one of
\* them gets to no call of createAccount, of handleOAuthUserInfo or of
\* setSessionCookie
C30_StateBoundToProvider ==
  \A r \in Runs :
    (run[r].parsed /\ run[r].req.providerId # "acme")
    => (~AtAccount(run[r]) /\ NoAccountOrSession(run[r]))

\* C31: an initiation for a provider with pkce hands the code verifier of
\* the FlowState it has stored to the authorization URL builder, and a
\* callback on such a provider sends the code verifier of the FlowState it
\* has consumed in the code exchange; for a provider without pkce neither
\* hands over a verifier
C31_PkceBothHalves ==
  /\ (initResp.status = "ok" /\ flows[initResp.state].status = "live")
     => LET pkce == FindProvider(initResp.providerId).pkce
        IN  /\ initResp.codeVerifier =
                 IF pkce THEN flows[initResp.state].codeVerifier ELSE 0
            /\ pkce => initResp.codeVerifier # 0
            /\ (initResp.params["code_challenge"] # Undefined) <=> pkce
  /\ \A r \in Runs :
       ReachedExchange(run[r])
       => LET pkce == FindProvider(run[r].req.providerId).pkce
          IN  /\ run[r].exchange.codeVerifier =
                   IF pkce THEN run[r].parsedState.codeVerifier ELSE 0
              /\ pkce => run[r].exchange.codeVerifier = run[r].req.state

\* C31 witness: a callback on the pkce provider has sent the verifier of the
\* flow it has consumed, and the exchange has succeeded
C31_Witness ==
  \E r \in Runs :
    /\ Has(run[r], "validateAuthorizationCode")
    /\ run[r].req.providerId = "oidc"
    /\ run[r].tokens # NoTokens
    /\ run[r].exchange.codeVerifier = run[r].parsedState.codeVerifier
    /\ run[r].exchange.codeVerifier # 0

\* C32: the callback tells handleOAuthUserInfo that sign-up is disabled
\* exactly when the provider has disableSignUp, or has disableImplicitSignUp
\* and the FlowState consumed has no requestSignUp; a new user is
\* registered for a provider with disableSignUp by no request, and for one
\* with disableImplicitSignUp only by a request whose FlowState has
\* requestSignUp
C32_SignUpGating ==
  \A r \in Runs :
    Has(run[r], "handleOAuthUserInfo")
    => LET provider == FindProvider(run[r].req.providerId)
           requestSignUp == run[r].parsedState.requestSignUp
       IN  /\ run[r].handle.disableSignUp
              <=> \/ provider.disableSignUp
                  \/ provider.disableImplicitSignUp /\ ~requestSignUp
           /\ run[r].result.isRegister
              => /\ ~provider.disableSignUp
                 /\ provider.disableImplicitSignUp => requestSignUp

\* C32 witness: on a provider with disableImplicitSignUp, a flow initiated
\* with requestSignUp has registered a new user
C32_Witness ==
  \E r \in Runs :
    /\ Has(run[r], "handleOAuthUserInfo")
    /\ FindProvider(run[r].req.providerId).disableImplicitSignUp
    /\ run[r].parsedState.requestSignUp
    /\ ~run[r].handle.disableSignUp
    /\ run[r].result.isRegister

\* the error codes the callback writes itself
ErrorCodes ==
  {"oauth_code_verification_failed", "email_is_missing",
   "email_doesn't_match", "unable_to_link_account"}

\* C33: a redirect of the callback before parseState goes to the default
\* error URL, with the request's error, or oAuth_code_missing, and the
\* request's error_description appended; the redirect parseState throws
\* goes to the generic error page with a fixed code; a redirect after it goes
\* to the FlowState's errorURL, else its callbackURL, else the base error
\* URL when it reports an error, and to the FlowState's callbackURL or
\* newUserURL otherwise, and carries nothing of the request
C33_RedirectTargets ==
  \A r \in Runs :
    run[r].outcome.kind = "redirect"
    => LET out == run[r].outcome
           state == run[r].parsedState
       IN  IF ParseFailed(run[r])
           THEN out = RedirectWithError(BaseErrorURL,
                                        "please_restart_the_process")
           ELSE IF ~run[r].parsed
           THEN /\ out.url = defaultErrorURL
                /\ out.error = Or(run[r].req.error, "oAuth_code_missing")
                /\ out.errorChars = <<>>
                /\ out.desc = run[r].req.error_description
           ELSE /\ out.desc = Undefined
                /\ IF FailedRedirect(run[r])
                   THEN /\ out.url =
                             IF Truthy(state.errorURL) THEN state.errorURL
                             ELSE IF Truthy(state.callbackURL)
                             THEN state.callbackURL
                             ELSE BaseErrorURL
                        /\ \/ out.error \in ErrorCodes /\ out.errorChars = <<>>
                           \/ /\ out.error = Undefined
                              /\ out.errorChars = SplitJoin(run[r].result.error)
                   ELSE /\ out.url \in {state.callbackURL, state.newUserURL}
                        /\ out.error = Undefined

\* C33 witness: a request that has consumed a FlowState without errorURL
\* has failed and is sent to the FlowState's callbackURL
C33_Witness ==
  \E r \in Runs :
    /\ run[r].pc = "done"
    /\ run[r].parsed
    /\ FailedRedirect(run[r])
    /\ ~Truthy(run[r].parsedState.errorURL)
    /\ run[r].outcome.url = run[r].parsedState.callbackURL
    /\ run[r].outcome.url = "/cb"

====
